---- MODULE Spec2Model ----
(***************************************************************************)
(* A model of CastPlayer (src/CastVideos.js): the dual-mode playback state *)
(* machine, its progress timer and the two progress-bar update paths.      *)
(*                                                                         *)
(* Every handler of the source is a function from the state before the     *)
(* call to the state after it, written in the order of the source's        *)
(* statements, so that a handler calling another is function application.  *)
(* An action of the model is one run of one handler on the event loop.     *)
(*                                                                         *)
(* Media times are counted in units of 1/UnitsPerSecond second, so that a   *)
(* duration need not be a whole number of seconds (media durations are     *)
(* not) while the arithmetic stays exact. The progress interval and the    *)
(* setProgressFlag timeouts all have a delay of 1000 ms, so the browser    *)
(* runs them in the order they were armed: the model keeps that order and  *)
(* no clock. Everything else (the user, the Cast API) may act at any time. *)
(***************************************************************************)
EXTENDS Integers, FiniteSets, Sequences, TLC

(***************************************************************************)
(* Bounds of the model.                                                    *)
(***************************************************************************)
\* units of media time per second
UnitsPerSecond == 2
\* callbacks in flight: the requests to the Cast API whose callback is still
\* to come (session, stop, load and seek) and the setProgressFlag timeouts
\* that are armed, all together
MaxPending == 2
\* update listeners registered on one media object
MaxListeners == 2
\* replaced media objects that still carry update listeners of this player,
\* told apart by the number of their listeners
MaxOrphans == 1
\* largest |currentMediaTime|, in seconds, a seek may produce in the model
MaxSeekSeconds == 2

(***************************************************************************)
(* Program constants.                                                      *)
(***************************************************************************)
PROGRESS_BAR_WIDTH == 600

DEVICE_STATE == [IDLE |-> 0, ACTIVE |-> 1, WARNING |-> 2, ERROR |-> 3]

PLAYER_STATE ==
  [IDLE |-> "IDLE", LOADING |-> "LOADING", LOADED |-> "LOADED",
   PLAYING |-> "PLAYING", PAUSED |-> "PAUSED", STOPPED |-> "STOPPED",
   SEEKING |-> "SEEKING", ERROR |-> "ERROR"]

\* this.autoplay is set to true by the constructor and never written again
autoplay == TRUE

(***************************************************************************)
(* Values.                                                                 *)
(***************************************************************************)
\* JavaScript's null, for the fields that hold an object
NULL == [null |-> TRUE]

\* this.timer = null; the ids setInterval returns are positive
NoTimer == 0

\* a chrome.cast.Session; the controller reads nothing of it but media[0]
\* (on auto-join, where it is an input of sessionListener)
SESSION == [sessionId |-> 1]

\* a chrome.cast.media.Media object with media.duration = d
Media(d) == [duration |-> d]

\* the durations a medium loaded on the receiver may have: 1 s, and 1 s
\* plus one time unit
Durations == {UnitsPerSecond, UnitsPerSecond + 1}

\* localPlayer.duration when the local player has loaded its medium
LocalDurations == {UnitsPerSecond + 1}

\* event.offsetX of a click on the bar or of a drag of the indicator
Offsets == {0, 600}

\* session.media[0] of a session handed to sessionListener: none, or a
\* medium the receiver is playing or has paused
ReceiverMedia ==
  {NULL} \cup
  [playerState : {"PLAYING", "PAUSED"},
   currentTime : {UnitsPerSecond},
   duration : {UnitsPerSecond + 1}]

\* the argument of an update listener: a boolean (the API's isAlive flag) or
\* a status object {idleReason, playerState, currentTime}
StatusUpdates ==
  [kind : {"boolean"}, value : BOOLEAN, idleReason : {"undefined"},
   playerState : {"undefined"}, currentTime : {0}]
  \cup
  [kind : {"object"}, value : {TRUE}, idleReason : {"FINISHED"},
   playerState : {"IDLE"}, currentTime : {0}]
  \cup
  [kind : {"object"}, value : {TRUE}, idleReason : {"undefined"},
   playerState : {"PLAYING"}, currentTime : {UnitsPerSecond}]

VARIABLES
  \* fields of CastPlayer
  deviceState, currentMediaSession, session, castPlayerState,
  localPlayerState, currentMediaTime, currentMediaDuration, timer,
  progressFlag,
  \* the browser: the ids of the scheduled intervals, the setProgressFlag
  \* timeouts that are armed (how many of them run before the next tick of
  \* the interval, how many after it), the width of #progress
  intervals, timeouts, progressWidth,
  \* the Cast API: requests whose callback is still to come, the listeners
  \* on the current media object, the listener counts of replaced ones
  pendingSession, pendingStop, pendingLoad, pendingSeek,
  listeners, orphanListeners,
  \* whether the handler that ran last ended in a TypeError
  threw

vars ==
  <<deviceState, currentMediaSession, session, castPlayerState,
    localPlayerState, currentMediaTime, currentMediaDuration, timer,
    progressFlag, intervals, timeouts, progressWidth,
    pendingSession, pendingStop, pendingLoad, pendingSeek,
    listeners, orphanListeners, threw>>

\* the state a handler starts from
Cur ==
  [deviceState |-> deviceState,
   currentMediaSession |-> currentMediaSession,
   session |-> session,
   castPlayerState |-> castPlayerState,
   localPlayerState |-> localPlayerState,
   currentMediaTime |-> currentMediaTime,
   currentMediaDuration |-> currentMediaDuration,
   timer |-> timer,
   progressFlag |-> progressFlag,
   intervals |-> intervals,
   timeouts |-> timeouts,
   progressWidth |-> progressWidth,
   pendingSession |-> pendingSession,
   pendingStop |-> pendingStop,
   pendingLoad |-> pendingLoad,
   pendingSeek |-> pendingSeek,
   listeners |-> listeners,
   orphanListeners |-> orphanListeners,
   threw |-> FALSE]

(***************************************************************************)
(* JavaScript and browser primitives.                                      *)
(***************************************************************************)
\* parseInt(n / m) for m > 0: the quotient, truncated towards zero
ParseIntDiv(n, m) == IF n >= 0 THEN n \div m ELSE -((-n) \div m)

\* Math.floor(n / m) and Math.ceil(n / m) for m > 0
FloorDiv(n, m) == n \div m
CeilDiv(n, m) == -((-n) \div m)

\* no setProgressFlag timeout is armed
NoTimeouts == [ahead |-> 0, behind |-> 0]

\* clearInterval(id): unschedules the interval with that id; a null id or
\* the id of an interval already cleared does nothing. With no interval
\* left the armed timeouts have no tick to wait for
clearInterval(s, id) ==
  LET left == s.intervals \ {id}
  IN  [s EXCEPT !.intervals = left,
                !.timeouts = IF left = {}
                             THEN [ahead |-> @.ahead + @.behind, behind |-> 0]
                             ELSE @]

\* the id setInterval returns: one no scheduled interval has
FreshId(ids) ==
  CHOOSE i \in 1..(Cardinality(ids) + 1) :
    i \notin ids /\ \A j \in 1..(i - 1) : j \in ids

\* this.timer = setInterval(callback.bind(this), this.timerStep): timerStep
\* is 1000, the delay of the timeouts, so every timeout armed by now runs
\* before the first tick
setInterval(s) ==
  LET id == FreshId(s.intervals)
  IN  [s EXCEPT !.timer = id,
                !.intervals = @ \cup {id},
                !.timeouts = [ahead |-> @.ahead + @.behind, behind |-> 0]]

\* setTimeout(this.setProgressFlag.bind(this), 1000): the next tick of an
\* interval that is scheduled comes first
setTimeout(s) ==
  IF s.intervals = {}
  THEN [s EXCEPT !.timeouts.ahead = @ + 1]
  ELSE [s EXCEPT !.timeouts.behind = @ + 1]

\* the interval is armed again when it ticks. A tick that runs late leaves
\* the next one at its nominal time: of the timeouts armed before this tick
\* ran, the late most recent ones run after the next tick, the others
\* before it
rearmInterval(s, late) ==
  [s EXCEPT !.timeouts = [ahead |-> @.behind - late, behind |-> late]]

\* p.style.width = w + 'px': a negative length is not a valid width and
\* leaves the style as it was
SetWidth(s, w) == IF w >= 0 THEN [s EXCEPT !.progressWidth = w] ELSE s

\* the handler ends here with a TypeError (a property of null is read)
Throw(s) == [s EXCEPT !.threw = TRUE]

\* an assignment to this.currentMediaSession: the listeners registered on
\* the object it held stay on that object
SetMediaSession(s, m) ==
  [s EXCEPT !.currentMediaSession = m,
            !.orphanListeners =
              IF s.listeners > 0 THEN @ \cup {s.listeners} ELSE @,
            !.listeners = 0]

\* this.currentMediaSession.addUpdateListener(this.onMediaStatusUpdate...)
addUpdateListener(s) == [s EXCEPT !.listeners = @ + 1]

(***************************************************************************)
(* The handlers of CastPlayer, in the order of the source.                 *)
(***************************************************************************)
\* faulty variant: the timer is started without the one before being cleared
startProgressTimerNoClear(s) == setInterval(s)

startProgressTimer(s) ==
  LET s1 == IF s.timer # NoTimer
            THEN [clearInterval(s, s.timer) EXCEPT !.timer = NoTimer]
            ELSE s
  IN  setInterval(s1)

launchApp(s) ==
  LET s1 == [s EXCEPT !.pendingSession = @ + 1]
  IN  IF s1.timer # NoTimer THEN clearInterval(s1, s1.timer) ELSE s1

\* writes the play/pause and cast icons only
updateMediaControlUI(s) == s

updateDisplayMessage(s) ==
  IF s.session # NULL THEN s ELSE launchApp(s)

loadMedia(s) ==
  IF s.session = NULL
  THEN s
  ELSE [s EXCEPT !.castPlayerState = PLAYER_STATE.LOADING,
                 !.pendingLoad = @ + 1]

\* mediaSession: Media(d) for how = "loadMedia"; session.media[0] for
\* how = "activeSession"
onMediaDiscovered(s, how, mediaSession) ==
  LET s1 == SetMediaSession(s, Media(mediaSession.duration))
      s2 == IF how = "loadMedia"
            THEN [s1 EXCEPT !.castPlayerState =
                    IF autoplay THEN PLAYER_STATE.PLAYING
                                ELSE PLAYER_STATE.LOADED]
            ELSE s1
      s3 == IF how = "activeSession"
            THEN [s2 EXCEPT !.castPlayerState = mediaSession.playerState,
                            !.currentMediaTime = mediaSession.currentTime]
            ELSE s2
      s4 == IF s3.castPlayerState = PLAYER_STATE.PLAYING
            THEN startProgressTimer(s3)
            ELSE s3
      s5 == addUpdateListener(s4)
      s6 == [s5 EXCEPT !.currentMediaDuration =
                          s5.currentMediaSession.duration]
      s7 == startProgressTimer(s6)
  IN  updateDisplayMessage(updateMediaControlUI(s7))

\* faulty variant: a medium the session already has is not adopted, a load
\* is issued in every case
sessionListenerAlwaysLoads(s, e, media0) ==
  LET s1 == [s EXCEPT !.session = e]
  IN  IF s1.session # NULL
      THEN loadMedia([s1 EXCEPT !.deviceState = DEVICE_STATE.ACTIVE])
      ELSE s1

sessionListener(s, e, media0) ==
  LET s1 == [s EXCEPT !.session = e]
  IN  IF s1.session # NULL
      THEN LET s2 == [s1 EXCEPT !.deviceState = DEVICE_STATE.ACTIVE]
           IN  IF media0 # NULL
               THEN onMediaDiscovered(s2, "activeSession", media0)
               ELSE loadMedia(s2)
      ELSE s1

\* faulty variant: the session is kept but no medium is loaded
onRequestSessionSuccessNoLoad(s, e) ==
  updateMediaControlUI(
    [s EXCEPT !.session = e, !.deviceState = DEVICE_STATE.ACTIVE])

onRequestSessionSuccess(s, e) ==
  loadMedia(updateMediaControlUI(
    [s EXCEPT !.session = e, !.deviceState = DEVICE_STATE.ACTIVE]))

\* faulty variant: the failed request is issued again
onLaunchErrorRetries(s) ==
  launchApp([s EXCEPT !.deviceState = DEVICE_STATE.ERROR])

onLaunchError(s) == [s EXCEPT !.deviceState = DEVICE_STATE.ERROR]

stopApp(s) ==
  IF s.session # NULL THEN [s EXCEPT !.pendingStop = @ + 1] ELSE s

\* faulty variant: the session is dropped and the timer left running
onStopAppSuccessKeepsTimer(s) ==
  updateMediaControlUI(updateDisplayMessage(
    SetMediaSession([s EXCEPT !.deviceState = DEVICE_STATE.IDLE,
                              !.castPlayerState = PLAYER_STATE.IDLE],
                    NULL)))

onStopAppSuccess(s) ==
  LET s1 == [s EXCEPT !.deviceState = DEVICE_STATE.IDLE,
                      !.castPlayerState = PLAYER_STATE.IDLE]
      s2 == SetMediaSession(s1, NULL)
      s3 == clearInterval(s2, s2.timer)
  IN  updateMediaControlUI(updateDisplayMessage(s3))

onLoadMediaError(s) ==
  updateDisplayMessage(updateMediaControlUI(
    [s EXCEPT !.castPlayerState = PLAYER_STATE.IDLE]))

\* onError and mediaCommandSuccessCallback have empty bodies
onError(s) == s

\* the timer path of the progress bar. #progress starts with width 0, so
\* the isNaN(parseInt(p.style.width)) reset changes nothing
updateProgressBarByTimer(s) ==
  LET defined == s.currentMediaDuration > 0
      \* pp is left undefined when the duration is not positive
      pp0 == FloorDiv(PROGRESS_BAR_WIDTH * s.currentMediaTime,
                      s.currentMediaDuration)
      \* inside if (this.progressFlag) pp itself is cut down to 600
      pp == IF s.progressFlag /\ pp0 > 600 THEN 600 ELSE pp0
      \* 'undefinedpx' is not a valid width either
      s1 == IF s.progressFlag /\ defined THEN SetWidth(s, pp) ELSE s
  IN  IF defined /\ pp > PROGRESS_BAR_WIDTH
      THEN updateMediaControlUI(updateDisplayMessage(
             [clearInterval(s1, s1.timer)
                EXCEPT !.deviceState = DEVICE_STATE.IDLE,
                       !.castPlayerState = PLAYER_STATE.IDLE]))
      ELSE s1

\* faulty variant: at the end of the medium the position is reset and the
\* timer left running
incrementMediaTimeKeepsTimer(s) ==
  IF \/ s.castPlayerState = PLAYER_STATE.PLAYING
     \/ s.localPlayerState = PLAYER_STATE.PLAYING
  THEN IF s.currentMediaTime < s.currentMediaDuration
       THEN updateProgressBarByTimer(
              [s EXCEPT !.currentMediaTime = @ + UnitsPerSecond])
       ELSE [s EXCEPT !.currentMediaTime = 0]
  ELSE s

\* currentMediaTime += 1 adds one second
incrementMediaTime(s) ==
  IF \/ s.castPlayerState = PLAYER_STATE.PLAYING
     \/ s.localPlayerState = PLAYER_STATE.PLAYING
  THEN IF s.currentMediaTime < s.currentMediaDuration
       THEN updateProgressBarByTimer(
              [s EXCEPT !.currentMediaTime = @ + UnitsPerSecond])
       ELSE clearInterval([s EXCEPT !.currentMediaTime = 0], s.timer)
  ELSE s

\* faulty variant: the suppression window is opened before the media
\* session is read
PushFillFlagFirst(s, e) ==
  LET s0 == setTimeout([s EXCEPT !.progressFlag = FALSE])
  IN  IF s.currentMediaSession = NULL
      THEN Throw(s0)
      ELSE LET raw == CeilDiv(PROGRESS_BAR_WIDTH * e.currentTime
                                + s.currentMediaSession.duration,
                              s.currentMediaSession.duration)
           IN  IF e.kind = "object"
               THEN SetWidth(s0, IF raw > 600 THEN 600 ELSE raw)
               ELSE s0

\* the push path of the progress bar. A boolean e has no idleReason and no
\* currentTime: the widths computed from it are NaN and are not applied.
\* The else branch of updateProgressBar: the fill is computed from the
\* status and the suppression window is opened
PushFill(s, e) ==
  IF s.currentMediaSession = NULL
  THEN Throw(s)
  ELSE LET raw == CeilDiv(PROGRESS_BAR_WIDTH * e.currentTime
                            + s.currentMediaSession.duration,
                          s.currentMediaSession.duration)
           width == IF raw > 600 THEN 600 ELSE raw
           s1 == IF e.kind = "object" THEN SetWidth(s, width) ELSE s
       IN  setTimeout([s1 EXCEPT !.progressFlag = FALSE])

\* faulty variant: the end of the medium resets the bar and leaves the timer running
updateProgressBarKeepsTimer(s, e) ==
  IF e.idleReason = "FINISHED" /\ e.playerState = "IDLE"
  THEN updateDisplayMessage(
         [SetWidth(s, 0) EXCEPT !.castPlayerState = PLAYER_STATE.STOPPED])
  ELSE PushFill(s, e)

updateProgressBar(s, e) ==
  IF e.idleReason = "FINISHED" /\ e.playerState = "IDLE"
  THEN updateDisplayMessage(
         [clearInterval(SetWidth(s, 0), s.timer)
            EXCEPT !.castPlayerState = PLAYER_STATE.STOPPED])
  ELSE PushFill(s, e)

setProgressFlag(s) == [s EXCEPT !.progressFlag = TRUE]

\* e == false holds of the boolean false and of no object
onMediaStatusUpdate(s, e) ==
  LET s1 == IF e.kind = "boolean" /\ e.value = FALSE
            THEN [s EXCEPT !.currentMediaTime = 0,
                           !.castPlayerState = PLAYER_STATE.IDLE]
            ELSE s
      s2 == updateProgressBar(s1, e)
  IN  IF s2.threw
      THEN s2
      ELSE updateMediaControlUI(updateDisplayMessage(s2))

\* localPlayer.duration is an input; localPlayer.currentTime is written and
\* read by no handler that any state of this model reaches
onMediaLoadedLocally(s, duration) ==
  startProgressTimer([s EXCEPT !.currentMediaDuration = duration])

playMedia(s) ==
  LET st == s.castPlayerState
      played ==
        IF st \in {PLAYER_STATE.LOADED, PLAYER_STATE.PAUSED}
        THEN IF s.currentMediaSession = NULL
             THEN Throw(s)
             ELSE startProgressTimer(
                    [addUpdateListener(s)
                       EXCEPT !.castPlayerState = PLAYER_STATE.PLAYING])
        ELSE IF st \in {PLAYER_STATE.IDLE, PLAYER_STATE.LOADING,
                        PLAYER_STATE.STOPPED}
        THEN LET s1 == loadMedia(s)
                 s2 == IF s1.currentMediaSession # NULL
                       THEN addUpdateListener(s1)
                       ELSE s1
             IN  [s2 EXCEPT !.castPlayerState = PLAYER_STATE.PLAYING]
        ELSE s
  IN  IF played.threw
      THEN played
      ELSE updateDisplayMessage(updateMediaControlUI(played))

pauseMediaLocally(s) ==
  clearInterval(
    updateMediaControlUI([s EXCEPT !.localPlayerState = PLAYER_STATE.PAUSED]),
    s.timer)

\* faulty variant: the remote pause leaves the timer running
pauseMediaKeepsTimer(s) ==
  IF s.currentMediaSession = NULL
  THEN pauseMediaLocally(s)
  ELSE IF s.castPlayerState = PLAYER_STATE.PLAYING
       THEN updateDisplayMessage(updateMediaControlUI(
              [s EXCEPT !.castPlayerState = PLAYER_STATE.PAUSED]))
       ELSE s

pauseMedia(s) ==
  IF s.currentMediaSession = NULL
  THEN pauseMediaLocally(s)
  ELSE IF s.castPlayerState = PLAYER_STATE.PLAYING
       THEN LET s1 == [s EXCEPT !.castPlayerState = PLAYER_STATE.PAUSED]
                s2 == updateDisplayMessage(updateMediaControlUI(s1))
            IN  clearInterval(s2, s2.timer)
       ELSE s

\* this.localPlayer is the video element of the page, which has no stop():
\* the call throws before localPlayerState is assigned
stopMediaLocally(s) == Throw(s)

stopMedia(s) ==
  IF s.currentMediaSession = NULL
  THEN stopMediaLocally(s)
  ELSE LET s1 == [s EXCEPT !.castPlayerState = PLAYER_STATE.STOPPED]
           s2 == clearInterval(s1, s1.timer)
       IN  updateMediaControlUI(updateDisplayMessage(s2))

\* the time, in time units, a seek asks for: target is the id of the
\* element the event is bound to, pos its offsetX
SeekTarget(s, target, pos) ==
  IF target = "progress_indicator"
  THEN UnitsPerSecond *
         ParseIntDiv(s.currentMediaTime * PROGRESS_BAR_WIDTH
                       + s.currentMediaDuration * pos,
                     PROGRESS_BAR_WIDTH * UnitsPerSecond)
  ELSE UnitsPerSecond *
         ParseIntDiv(pos * s.currentMediaDuration,
                     PROGRESS_BAR_WIDTH * UnitsPerSecond)

\* seekMedia past its guard: the seek to curr is issued
SeekTo(s, curr) ==
  LET s1 == [s EXCEPT !.currentMediaTime = curr]
  IN  IF s1.currentMediaSession = NULL
      THEN Throw(s1)
      ELSE updateMediaControlUI(updateDisplayMessage(
             [s1 EXCEPT !.pendingSeek = @ + 1,
                        !.castPlayerState = PLAYER_STATE.SEEKING]))

\* faulty variant: the guard turns away the states without a medium only
seekMediaWeakGuard(s, target, pos) ==
  IF s.castPlayerState \in {PLAYER_STATE.IDLE, PLAYER_STATE.LOADING}
  THEN s
  ELSE SeekTo(s, SeekTarget(s, target, pos))

seekMedia(s, target, pos) ==
  LET curr == SeekTarget(s, target, pos)
  IN  IF /\ s.castPlayerState # PLAYER_STATE.PLAYING
         /\ s.castPlayerState # PLAYER_STATE.PAUSED
      THEN s
      ELSE SeekTo(s, curr)

onSeekSuccess(s) ==
  updateMediaControlUI(updateDisplayMessage(
    [s EXCEPT !.castPlayerState = PLAYER_STATE.PLAYING]))

(***************************************************************************)
(* The state machine: one action per run of a handler.                     *)
(***************************************************************************)
Init ==
  /\ deviceState = DEVICE_STATE.IDLE
  /\ currentMediaSession = NULL
  /\ session = NULL
  /\ castPlayerState = PLAYER_STATE.IDLE
  /\ localPlayerState = PLAYER_STATE.PAUSED
  /\ currentMediaTime = 0
  /\ currentMediaDuration = -UnitsPerSecond
  /\ timer = NoTimer
  /\ progressFlag = TRUE
  /\ intervals = {}
  /\ timeouts = NoTimeouts
  /\ progressWidth = 0
  /\ pendingSession = 0
  /\ pendingStop = 0
  /\ pendingLoad = 0
  /\ pendingSeek = 0
  /\ listeners = 0
  /\ orphanListeners = {}
  /\ threw = FALSE

\* the state s stays within the bounds of the model
Bounded(s) ==
  /\ s.pendingSession + s.pendingStop + s.pendingLoad + s.pendingSeek
       + s.timeouts.ahead + s.timeouts.behind <= MaxPending
  /\ s.listeners <= MaxListeners
  /\ Cardinality(s.orphanListeners) <= MaxOrphans
  /\ s.currentMediaTime <= MaxSeekSeconds * UnitsPerSecond
  /\ s.currentMediaTime >= -(MaxSeekSeconds * UnitsPerSecond)

\* a handler has run and left the state s
Commit(s) ==
  /\ deviceState' = s.deviceState
  /\ currentMediaSession' = s.currentMediaSession
  /\ session' = s.session
  /\ castPlayerState' = s.castPlayerState
  /\ localPlayerState' = s.localPlayerState
  /\ currentMediaTime' = s.currentMediaTime
  /\ currentMediaDuration' = s.currentMediaDuration
  /\ timer' = s.timer
  /\ progressFlag' = s.progressFlag
  /\ intervals' = s.intervals
  /\ timeouts' = s.timeouts
  /\ progressWidth' = s.progressWidth
  /\ pendingSession' = s.pendingSession
  /\ pendingStop' = s.pendingStop
  /\ pendingLoad' = s.pendingLoad
  /\ pendingSeek' = s.pendingSeek
  /\ listeners' = s.listeners
  /\ orphanListeners' = s.orphanListeners
  /\ threw' = s.threw

\* user: a click on the idle cast icon
LaunchApp ==
  LET s == launchApp(Cur)
  IN  Bounded(s) /\ Commit(s)

\* Cast API: the callbacks of chrome.cast.requestSession
OnRequestSessionSuccess ==
  /\ pendingSession > 0
  /\ LET s == onRequestSessionSuccess(
                [Cur EXCEPT !.pendingSession = @ - 1], SESSION)
     IN  Bounded(s) /\ Commit(s)

OnLaunchError ==
  /\ pendingSession > 0
  /\ Commit(onLaunchError([Cur EXCEPT !.pendingSession = @ - 1]))

\* Cast API: a session is found (auto-join), with media0 as its media[0];
\* it may come at any time
SessionJoin(media0) ==
  LET s == sessionListener(Cur, SESSION, media0)
  IN  Bounded(s) /\ Commit(s)

SessionListener == \E media0 \in ReceiverMedia : SessionJoin(media0)

\* user: a click on the active cast icon
StopApp ==
  LET s == stopApp(Cur)
  IN  Bounded(s) /\ Commit(s)

\* Cast API: the callbacks of session.stop
OnStopAppSuccess ==
  /\ pendingStop > 0
  /\ LET s == onStopAppSuccess([Cur EXCEPT !.pendingStop = @ - 1])
     IN  Bounded(s) /\ Commit(s)

OnStopAppError ==
  /\ pendingStop > 0
  /\ Commit(onError([Cur EXCEPT !.pendingStop = @ - 1]))

\* Cast API: the callbacks of session.loadMedia; they are not cancelled by
\* anything the controller does
OnLoadMediaSuccess ==
  /\ pendingLoad > 0
  /\ \E d \in Durations :
       LET s == onMediaDiscovered([Cur EXCEPT !.pendingLoad = @ - 1],
                                  "loadMedia", Media(d))
       IN  Bounded(s) /\ Commit(s)

OnLoadMediaError ==
  /\ pendingLoad > 0
  /\ LET s == onLoadMediaError([Cur EXCEPT !.pendingLoad = @ - 1])
     IN  Bounded(s) /\ Commit(s)

\* Cast API: a media object notifies its n update listeners of a status, one
\* after the other; each of them is onMediaStatusUpdate bound to this player
RECURSIVE notifyListeners(_, _, _)
notifyListeners(s, e, n) ==
  IF n = 0 THEN s ELSE notifyListeners(onMediaStatusUpdate(s, e), e, n - 1)

\* the numbers of listeners a push may run: those on the current media
\* object, or those on a media object that was replaced
ListenerCounts ==
  (IF listeners > 0 THEN {listeners} ELSE {}) \cup orphanListeners

\* Cast API: a media object with a listener of this player pushes a status
StatusPush(e) ==
  \E n \in ListenerCounts :
    LET s == notifyListeners(Cur, e, n)
    IN  Bounded(s) /\ Commit(s)

OnMediaStatusUpdate == \E e \in StatusUpdates : StatusPush(e)

\* page: the local player has loaded its metadata
OnMediaLoadedLocally ==
  \E d \in LocalDurations :
    LET s == onMediaLoadedLocally(Cur, d)
    IN  Bounded(s) /\ Commit(s)

\* user: the play and pause buttons
PlayMedia ==
  LET s == playMedia(Cur)
  IN  Bounded(s) /\ Commit(s)

PauseMedia ==
  LET s == pauseMedia(Cur)
  IN  Bounded(s) /\ Commit(s)

\* a caller of the player object: stopMedia is a method no listener of the
\* page is bound to
StopMedia ==
  LET s == stopMedia(Cur)
  IN  Bounded(s) /\ Commit(s)

\* user: a click on the progress bar, or a drag of its indicator
SeekMedia ==
  \E target \in {"progress", "progress_indicator"}, pos \in Offsets :
    LET s == seekMedia(Cur, target, pos)
    IN  Bounded(s) /\ Commit(s)

\* Cast API: the callbacks of currentMediaSession.seek
OnSeekSuccess ==
  /\ pendingSeek > 0
  /\ LET s == onSeekSuccess([Cur EXCEPT !.pendingSeek = @ - 1])
     IN  Bounded(s) /\ Commit(s)

OnSeekError ==
  /\ pendingSeek > 0
  /\ Commit(onError([Cur EXCEPT !.pendingSeek = @ - 1]))

\* browser: a scheduled interval ticks, once the timeouts armed before it
\* have run; every interval of this page has incrementMediaTime as its
\* callback
TimerTick ==
  /\ intervals # {}
  /\ timeouts.ahead = 0
  /\ \E late \in 0..timeouts.behind :
       LET s == incrementMediaTime(rearmInterval(Cur, late))
       IN  Bounded(s) /\ Commit(s)

\* browser: the oldest setProgressFlag timeout runs; one armed after the
\* interval was waits for the tick
SetProgressFlagTimeout ==
  /\ timeouts.ahead > 0
  /\ Commit(setProgressFlag([Cur EXCEPT !.timeouts.ahead = @ - 1]))

(***************************************************************************)
(* Properties. Where a property names a step of a handler, a first         *)
(* conjunct may state what every step of that handler does to a counter or *)
(* a field (a callback takes its request off the count, a push leaves the  *)
(* requests alone): it is implied by the action that follows it.           *)
(***************************************************************************)
\* the fields of CastPlayer, and the browser and Cast API state around it
playerFields ==
  <<deviceState, currentMediaSession, session, castPlayerState,
    localPlayerState, currentMediaTime, currentMediaDuration, timer,
    progressFlag>>

environment ==
  <<intervals, timeouts, progressWidth, pendingSession, pendingStop,
    pendingLoad, pendingSeek, listeners, orphanListeners>>

\* C1: command routing follows the session. While session is null the
\* transport commands playMedia, pauseMedia, stopMedia and seekMedia leave
\* castPlayerState, currentMediaSession and session as they are; while it
\* is not null they leave localPlayerState as it is.
C1_RoutingFollowsSession ==
  [][(PlayMedia \/ PauseMedia \/ StopMedia \/ SeekMedia) =>
       /\ session = NULL =>
            UNCHANGED <<castPlayerState, currentMediaSession, session>>
       /\ session # NULL => UNCHANGED localPlayerState]_vars

\* C2: a status push wins over the timer inside its suppression window. A
\* timer tick that comes less than a second after a push handled by
\* updateProgressBar (the timeout of that push has not run yet) leaves the
\* width of the progress bar as it is.
C2_PushWinsInWindow ==
  [][(TimerTick /\ timeouts.behind > 0) => UNCHANGED progressWidth]_vars

\* the state onStopAppSuccess leaves: the session torn down, nothing since
SessionTornDown ==
  /\ session # NULL
  /\ deviceState = DEVICE_STATE.IDLE
  /\ castPlayerState = PLAYER_STATE.IDLE
  /\ currentMediaSession = NULL
  /\ intervals = {}

\* C3: a stale load-success callback is ignored. When the session has been
\* torn down (onStopAppSuccess ran) with a loadMedia request still out, the
\* late success callback leaves currentMediaSession null, castPlayerState
\* IDLE and no timer running.
C3_StaleLoadIgnored ==
  [][(SessionTornDown /\ OnLoadMediaSuccess) =>
       /\ currentMediaSession' = NULL
       /\ castPlayerState' = PLAYER_STATE.IDLE
       /\ intervals' = {}]_vars

\* C4: at most one interval timer is ever scheduled, it is the one
\* this.timer names, and a handler that starts the timer (twice, on a load
\* that starts playing) leaves exactly one.
C4_SingleTimer ==
  [][/\ Cardinality(intervals') <= 1
     /\ intervals' \subseteq {timer'}
     /\ (pendingLoad' = pendingLoad - 1 /\ OnLoadMediaSuccess) =>
          Cardinality(intervals') = 1
     /\ Cardinality(intervals') = 1 \/ ~OnMediaLoadedLocally]_vars

\* C4 witness: a load has succeeded and started playing, so that
\* startProgressTimer ran twice in one handler, and one timer is scheduled.
C4_Witness ==
  /\ currentMediaSession # NULL
  /\ listeners = 1
  /\ castPlayerState = PLAYER_STATE.PLAYING
  /\ intervals = {timer}

\* C5: the playback position stays within the medium: currentMediaTime is
\* never negative, and never beyond a currentMediaDuration that is not
\* negative.
C5_PositionInRange ==
  /\ currentMediaTime >= 0
  /\ currentMediaDuration >= 0 => currentMediaTime <= currentMediaDuration

\* C6: seekMedia outside PLAYING and PAUSED is a no-op: no seek request is
\* issued and no field of the player, nothing of the browser and of the
\* Cast API state changes.
C6_SeekRejected ==
  [][(/\ castPlayerState \notin {PLAYER_STATE.PLAYING, PLAYER_STATE.PAUSED}
      /\ UNCHANGED <<listeners, progressFlag, pendingStop, pendingLoad>>
      /\ SeekMedia) =>
       UNCHANGED <<playerFields, environment>> /\ threw' = FALSE]_vars

\* C6 witness: a load is in progress, where seekMedia is rejected: no seek
\* request is out and no handler threw.
C6_Witness ==
  /\ castPlayerState = PLAYER_STATE.LOADING
  /\ pendingLoad > 0
  /\ pendingSeek = 0
  /\ ~threw

\* C7: the launch, end to end. launchApp leaves castPlayerState and session
\* alone; the session-request success, from IDLE, sets the session and
\* deviceState ACTIVE and goes to LOADING with a load request out; the load
\* success (autoplay is true), from LOADING, goes to PLAYING with the
\* progress timer scheduled and a status listener on the media object.
C7_LaunchToPlaying ==
  [][/\ (pendingSession' = pendingSession + 1 /\ LaunchApp) =>
          UNCHANGED <<castPlayerState, session>>
     /\ (/\ castPlayerState = PLAYER_STATE.IDLE
         /\ pendingSession' = pendingSession - 1
         /\ OnRequestSessionSuccess) =>
          /\ session' # NULL
          /\ deviceState' = DEVICE_STATE.ACTIVE
          /\ castPlayerState' = PLAYER_STATE.LOADING
          /\ pendingLoad' = pendingLoad + 1
     /\ (/\ castPlayerState = PLAYER_STATE.LOADING
         /\ pendingLoad' = pendingLoad - 1
         /\ OnLoadMediaSuccess) =>
          /\ castPlayerState' = PLAYER_STATE.PLAYING
          /\ currentMediaSession' # NULL
          /\ timer' \in intervals'
          /\ listeners' >= 1]_vars

\* C7 witness: the load requested by the session-request success has
\* succeeded: the player is casting and playing, with its timer running.
C7_Witness ==
  /\ deviceState = DEVICE_STATE.ACTIVE
  /\ session # NULL
  /\ castPlayerState = PLAYER_STATE.PLAYING
  /\ timer \in intervals
  /\ listeners = 1
  /\ pendingSession = 0 /\ pendingLoad = 0

\* the status push {idleReason: 'FINISHED', playerState: 'IDLE'}
FinishedPush ==
  [kind |-> "object", value |-> TRUE, idleReason |-> "FINISHED",
   playerState |-> "IDLE", currentTime |-> 0]

\* C8: the FINISHED/IDLE status push empties the progress bar, cancels the
\* progress timer and leaves castPlayerState STOPPED or IDLE, whatever the
\* bar showed and whatever the suppression flag was.
C8_FinishedPushResets ==
  [][(/\ UNCHANGED <<listeners, pendingSession, pendingStop, pendingLoad,
                      pendingSeek, progressFlag, timer>>
      /\ timeouts'.ahead + timeouts'.behind = timeouts.ahead + timeouts.behind
      /\ StatusPush(FinishedPush)) =>
       /\ progressWidth' = 0
       /\ intervals' = {}
       /\ castPlayerState' \in {PLAYER_STATE.STOPPED, PLAYER_STATE.IDLE}]_vars

\* C8 witness: the FINISHED push has been handled inside the suppression
\* window of an earlier push (the flag is still down).
C8_Witness ==
  /\ castPlayerState = PLAYER_STATE.STOPPED
  /\ currentMediaSession # NULL
  /\ progressWidth = 0
  /\ ~progressFlag
  /\ timeouts # NoTimeouts
  /\ timer # NoTimer
  /\ intervals = {}

\* C9: after the session has been stopped, a timer tick that fires while
\* currentMediaSession is null changes neither castPlayerState nor
\* deviceState. It is stated of every tick that fires while
\* currentMediaSession is null, whether onStopAppSuccess has run or not.
C9_TickLeavesRemoteState ==
  [][(TimerTick /\ currentMediaSession = NULL) =>
       UNCHANGED <<castPlayerState, deviceState>>]_vars

\* C9 witness: a media object that was adopted is held no more, which only
\* onStopAppSuccess brings about; after it the local player loaded its
\* medium, play was pressed, and a tick has taken the position past the end
\* of the medium: the player still counts as playing.
C9_Witness ==
  /\ currentMediaSession = NULL
  /\ orphanListeners # {}
  /\ castPlayerState = PLAYER_STATE.PLAYING
  /\ currentMediaDuration > 0
  /\ currentMediaTime > currentMediaDuration
  /\ progressWidth = PROGRESS_BAR_WIDTH
  /\ intervals # {}
  /\ ~threw

\* C10: the success of session.stop leaves deviceState IDLE, castPlayerState
\* IDLE, no media session and no timer scheduled; stopApp on a session only
\* issues the request; stopApp without a session, and a stop that fails,
\* change nothing.
C10_StopApp ==
  [][/\ (pendingStop' = pendingStop - 1 /\ OnStopAppSuccess) =>
          /\ deviceState' = DEVICE_STATE.IDLE
          /\ castPlayerState' = PLAYER_STATE.IDLE
          /\ currentMediaSession' = NULL
          /\ intervals' = {}
     /\ (session = NULL /\ StopApp) =>
          UNCHANGED <<playerFields, environment>>
     /\ (session # NULL /\ StopApp) =>
          UNCHANGED playerFields /\ pendingStop' = pendingStop + 1
     /\ (pendingStop' = pendingStop - 1 /\ OnStopAppError) =>
          /\ UNCHANGED playerFields
          /\ UNCHANGED <<intervals, timeouts, progressWidth, pendingSession,
                         pendingLoad, pendingSeek, listeners,
                         orphanListeners>>]_vars

\* C10 witness: a session that was playing has been stopped: the timer it
\* had started is no longer scheduled.
C10_Witness ==
  /\ deviceState = DEVICE_STATE.IDLE
  /\ currentMediaSession = NULL
  /\ orphanListeners # {}
  /\ timer # NoTimer
  /\ intervals = {}

\* C11: the session lifecycle. session becomes non-null at a successful
\* session request and at an auto-join, is null again after the success of
\* session.stop, and changes at no other step.
C11_SessionLifecycle ==
  [][/\ (OnRequestSessionSuccess \/ SessionListener) => session' # NULL
     /\ OnStopAppSuccess => session' = NULL
     /\ session' # session =>
          (OnRequestSessionSuccess \/ SessionListener \/ OnStopAppSuccess)]_vars

\* C12: the media session lifecycle. currentMediaSession is set when a load
\* completes and is null after stopMedia in cast mode and after the success
\* of session.stop.
C12_MediaSessionLifecycle ==
  [][/\ OnLoadMediaSuccess => currentMediaSession' # NULL
     /\ (StopMedia /\ currentMediaSession # NULL) =>
          currentMediaSession' = NULL
     /\ OnStopAppSuccess => currentMediaSession' = NULL]_vars

\* a step taken by the user, through a listener initializeUI registers: the
\* cast icons, the play and pause buttons, the progress bar
UserAction ==
  LaunchApp \/ StopApp \/ PlayMedia \/ PauseMedia \/ SeekMedia

\* C13: a failed session request sets deviceState ERROR, leaves session,
\* castPlayerState and currentMediaSession as they are and issues no new
\* request; a new session request is only ever issued by a step of the
\* user.
C13_LaunchErrorNoRetry ==
  [][/\ OnLaunchError =>
          /\ deviceState' = DEVICE_STATE.ERROR
          /\ pendingSession' = pendingSession - 1
          /\ UNCHANGED <<session, castPlayerState, currentMediaSession>>
     /\ pendingSession' > pendingSession => UserAction]_vars

\* C13 witness: the only session request has failed; there is no session.
C13_Witness ==
  /\ deviceState = DEVICE_STATE.ERROR
  /\ session = NULL
  /\ pendingSession = 0

\* C14: auto-join. sessionListener on a session, whatever its media[0],
\* sets deviceState ACTIVE; a session with a medium is adopted without a
\* load (currentMediaSession is set, castPlayerState and currentMediaTime
\* are those of the medium), a session without one gets a load request and
\* castPlayerState LOADING.
C14_AutoJoin ==
  [][(/\ UNCHANGED <<pendingSession, pendingStop, pendingSeek,
                      progressFlag, progressWidth>>
      /\ timeouts'.ahead + timeouts'.behind = timeouts.ahead + timeouts.behind
      /\ ~threw') =>
       \A media0 \in ReceiverMedia :
         (/\ IF media0 = NULL
             THEN UNCHANGED <<listeners, orphanListeners, intervals, timer,
                              timeouts, currentMediaDuration>>
             ELSE listeners' = 1 /\ currentMediaDuration' = media0.duration
          /\ SessionJoin(media0)) =>
           /\ session' # NULL
           /\ deviceState' = DEVICE_STATE.ACTIVE
           /\ media0 # NULL =>
                /\ pendingLoad' = pendingLoad
                /\ currentMediaSession' = Media(media0.duration)
                /\ castPlayerState' = media0.playerState
                /\ currentMediaTime' = media0.currentTime
           /\ media0 = NULL =>
                /\ pendingLoad' = pendingLoad + 1
                /\ castPlayerState' = PLAYER_STATE.LOADING
                /\ UNCHANGED currentMediaSession]_vars

\* C14 witness: a session whose medium is paused has been joined, without
\* a load request.
C14_Witness ==
  /\ deviceState = DEVICE_STATE.ACTIVE
  /\ castPlayerState = PLAYER_STATE.PAUSED
  /\ currentMediaSession # NULL
  /\ currentMediaTime = UnitsPerSecond
  /\ pendingLoad = 0

\* C15: playMedia. From LOADED and PAUSED it goes to PLAYING with the
\* progress timer started; from IDLE, LOADING and STOPPED it goes to
\* PLAYING; from PLAYING, SEEKING and ERROR it issues no request and
\* leaves castPlayerState and the timer as they are.
C15_PlayMedia ==
  [][PlayMedia =>
       /\ castPlayerState \in {PLAYER_STATE.LOADED, PLAYER_STATE.PAUSED} =>
            castPlayerState' = PLAYER_STATE.PLAYING /\ timer' \in intervals'
       /\ castPlayerState \in {PLAYER_STATE.IDLE, PLAYER_STATE.LOADING,
                               PLAYER_STATE.STOPPED} =>
            castPlayerState' = PLAYER_STATE.PLAYING
       /\ castPlayerState \in {PLAYER_STATE.PLAYING, PLAYER_STATE.SEEKING,
                               PLAYER_STATE.ERROR} =>
            UNCHANGED <<castPlayerState, timer, intervals, pendingSession,
                        pendingStop, pendingLoad, pendingSeek>>]_vars

\* C16: pauseMedia. With a media session it acts from PLAYING only, where
\* it goes to PAUSED and stops the timer; from any other cast state it
\* changes nothing; with no media session it pauses the local player
\* (localPlayerState PAUSED, timer stopped) and leaves castPlayerState.
C16_PauseMedia ==
  [][(/\ UNCHANGED <<progressFlag, pendingStop, pendingSeek, progressWidth>>
      /\ PauseMedia) =>
       /\ (currentMediaSession # NULL
             /\ castPlayerState = PLAYER_STATE.PLAYING) =>
            /\ castPlayerState' = PLAYER_STATE.PAUSED
            /\ intervals' = {}
            /\ UNCHANGED localPlayerState
       /\ (currentMediaSession # NULL
             /\ castPlayerState # PLAYER_STATE.PLAYING) =>
            UNCHANGED <<playerFields, environment>>
       /\ currentMediaSession = NULL =>
            /\ localPlayerState' = PLAYER_STATE.PAUSED
            /\ intervals' = {}
            /\ UNCHANGED castPlayerState]_vars

\* C16 witness: a medium that was playing on the receiver has been paused:
\* the timer it had is no longer scheduled.
C16_Witness ==
  /\ currentMediaSession # NULL
  /\ castPlayerState = PLAYER_STATE.PAUSED
  /\ timer # NoTimer
  /\ intervals = {}

\* C17: stopMedia stops playback and the timer in both modes: with a media
\* session castPlayerState is STOPPED, with none localPlayerState is
\* STOPPED, and in both no timer is scheduled afterwards.
C17_StopMedia ==
  [][StopMedia =>
       /\ currentMediaSession # NULL =>
            castPlayerState' = PLAYER_STATE.STOPPED /\ intervals' = {}
       /\ currentMediaSession = NULL =>
            localPlayerState' = PLAYER_STATE.STOPPED /\ intervals' = {}]_vars

\* C18: a seek accepted from PLAYING or PAUSED issues the seek request and
\* goes to SEEKING; the success callback of a seek goes to PLAYING.
C18_SeekThenPlaying ==
  [][/\ (SeekMedia /\ castPlayerState \in
            {PLAYER_STATE.PLAYING, PLAYER_STATE.PAUSED}) =>
          /\ castPlayerState' = PLAYER_STATE.SEEKING
          /\ pendingSeek' = pendingSeek + 1
     /\ OnSeekSuccess => castPlayerState' = PLAYER_STATE.PLAYING]_vars

\* one of the two players counts as playing
Playing ==
  \/ castPlayerState = PLAYER_STATE.PLAYING
  \/ localPlayerState = PLAYER_STATE.PLAYING

\* C19: the timer tick. With neither player PLAYING it changes nothing;
\* with one PLAYING and the position before the duration it advances the
\* position by one second; with one PLAYING and the position at or past
\* the duration it resets the position to 0 and unschedules the timer, so
\* that no tick follows until a timer is started again.
C19_TimerTick ==
  [][TimerTick =>
       /\ ~Playing =>
            UNCHANGED <<playerFields, intervals, progressWidth,
                        pendingSession, pendingStop, pendingLoad, pendingSeek,
                        listeners, orphanListeners>>
       /\ (Playing /\ currentMediaTime < currentMediaDuration) =>
            currentMediaTime' = currentMediaTime + UnitsPerSecond
       /\ (Playing /\ currentMediaTime >= currentMediaDuration) =>
            currentMediaTime' = 0 /\ intervals' = {}]_vars

\* C19 witness: a tick has found the position past the end of the medium
\* that is playing: the position is 0 and the timer is no longer scheduled.
C19_Witness ==
  /\ castPlayerState = PLAYER_STATE.PLAYING
  /\ currentMediaDuration > 0
  /\ currentMediaTime = 0
  /\ timer # NoTimer
  /\ intervals = {}

\* the fill the tick computes from the position it advances to
FillAfterTick ==
  FloorDiv(PROGRESS_BAR_WIDTH * (currentMediaTime + UnitsPerSecond),
           currentMediaDuration)

\* C20: the end of the medium on the timer path. A tick whose computed fill
\* exceeds PROGRESS_BAR_WIDTH stops the timer and resets deviceState and
\* castPlayerState to IDLE, whatever the suppression flag is.
C20_TimerEndOfMedia ==
  [][(/\ TimerTick
      /\ Playing
      /\ currentMediaDuration > 0
      /\ currentMediaTime < currentMediaDuration
      /\ FillAfterTick > PROGRESS_BAR_WIDTH) =>
       /\ intervals' = {}
       /\ deviceState' = DEVICE_STATE.IDLE
       /\ castPlayerState' = PLAYER_STATE.IDLE]_vars

\* the status push false: the API tells the media session is gone
FalsePush ==
  [kind |-> "boolean", value |-> FALSE, idleReason |-> "undefined",
   playerState |-> "undefined", currentTime |-> 0]

\* C21: a status push that tells of no media (the boolean false, or
\* FINISHED/IDLE) resets currentMediaTime to 0, sets castPlayerState IDLE
\* and does not reach the push path of the progress bar (no suppression
\* window is opened); every other push reaches it (the window is opened)
\* and leaves castPlayerState as it is.
C21_NoMediaPush ==
  [][\A e \in StatusUpdates :
         StatusPush(e) =>
           IF e \in {FalsePush, FinishedPush}
           THEN /\ currentMediaTime' = 0
                /\ castPlayerState' = PLAYER_STATE.IDLE
                /\ UNCHANGED <<progressFlag, timeouts>>
           ELSE /\ UNCHANGED castPlayerState
                /\ progressFlag' = FALSE]_vars

\* C22: the two mode discriminators agree: deviceState is ACTIVE exactly
\* when a session is held.
C22_DiscriminatorsAgree ==
  (deviceState = DEVICE_STATE.ACTIVE) <=> (session # NULL)

\* C23: whenever castPlayerState is PLAYING and a media session is held,
\* the progress timer is running.
C23_PlayingHasTimer ==
  (castPlayerState = PLAYER_STATE.PLAYING /\ currentMediaSession # NULL)
    => timer \in intervals

\* C24: no handler operates on a missing media session: when playMedia
\* takes its LOADED/PAUSED branch, seekMedia passes its state guard, or a
\* status push other than the no-media ones reaches updateProgressBar,
\* currentMediaSession is non-null and the handler does not throw.
C24_MediaSessionPresent ==
  [][/\ (/\ castPlayerState \in {PLAYER_STATE.LOADED, PLAYER_STATE.PAUSED}
          /\ PlayMedia)
         => (currentMediaSession # NULL /\ ~threw')
     /\ (/\ castPlayerState \in {PLAYER_STATE.PLAYING, PLAYER_STATE.PAUSED}
          /\ SeekMedia)
         => (currentMediaSession # NULL /\ ~threw')
     /\ (/\ \E e \in StatusUpdates \ {FalsePush, FinishedPush} :
               StatusPush(e))
         => (currentMediaSession # NULL /\ ~threw')]_vars

\* C25: at most one onMediaStatusUpdate listener is registered on the
\* current media session, so a push runs the handler once.
C25_SingleListener ==
  listeners <= 1

(***************************************************************************)
(* The specification: the user, the Cast API and the browser may run any   *)
(* handler whose event is due, in any order.                               *)
(***************************************************************************)
Next ==
  \/ LaunchApp
  \/ OnRequestSessionSuccess
  \/ OnLaunchError
  \/ SessionListener
  \/ StopApp
  \/ OnStopAppSuccess
  \/ OnStopAppError
  \/ OnLoadMediaSuccess
  \/ OnLoadMediaError
  \/ OnMediaStatusUpdate
  \/ OnMediaLoadedLocally
  \/ PlayMedia
  \/ PauseMedia
  \/ StopMedia
  \/ SeekMedia
  \/ OnSeekSuccess
  \/ OnSeekError
  \/ TimerTick
  \/ SetProgressFlagTimeout

Spec == Init /\ [][Next]_vars

====
